---- MODULE Spec2Model ----
(***************************************************************************)
(* A model of NiMARE's diagnostics (nimare/diagnostics.py): the Jackknife  *)
(* and FocusCounter transforms, their per-study tasks and the assembly of  *)
(* the contribution table, the FocusFilter transform, and the workflow     *)
(* that runs the diagnostics (nimare/workflows/cbma.py).                   *)
(*                                                                         *)
(* Volumes are one-dimensional: a voxel is an index of Grid, two voxels    *)
(* touch by a face when their indices differ by 1, and the Euclidean       *)
(* distance of two voxels is the absolute difference of their indices.     *)
(* Floating-point values are exact rationals, plus the IEEE values the     *)
(* code can produce from a division by zero (inf, nan) and what            *)
(* numpy.nan_to_num makes of them (0 and +-DBL_MAX).                       *)
(***************************************************************************)
EXTENDS Integers, Sequences, FiniteSets, TLC

(***************************************************************************)
(* Bounds of the model.                                                    *)
(***************************************************************************)
\* Largest absolute value of a statistic drawn for one voxel.
MaxVal == 3
\* Number of voxels of a volume.
NVox == 3
\* Number of studies of the Dataset.
MaxStudies == 2
\* Largest number of rows of a coordinate table drawn freely.
MaxRows == 2
\* Edge of a voxel in millimetres (the scale of the affine).
VoxSize == 3

(***************************************************************************)
(* Arithmetic: exact rationals and the IEEE special values.                *)
(***************************************************************************)
Abs(a) == IF a < 0 THEN -a ELSE a

RECURSIVE GCD(_, _)
GCD(a, b) == IF b = 0 THEN a ELSE GCD(b, a % b)

\* The finite value n/d (d # 0) in lowest terms with a positive denominator.
Fin(n, d) ==
    LET g == GCD(Abs(n), Abs(d))
        s == IF d < 0 THEN -1 ELSE 1
    IN  [k |-> "fin", n |-> (s * n) \div g, d |-> (s * d) \div g]

\* n/d times DBL_MAX, the largest finite double (0 < |n/d| <= 1).
Big(n, d) == [k |-> "big", n |-> Fin(n, d).n, d |-> Fin(n, d).d]
\* Signed infinity, and not-a-number.
Inf(s) == [k |-> "inf", n |-> s, d |-> 1]
NaN == [k |-> "nan", n |-> 0, d |-> 1]

\* numpy.true_divide of two finite integers: x/0 is +-inf, 0/0 is nan.
TrueDivide(a, b) ==
    IF b # 0 THEN Fin(a, b)
    ELSE IF a > 0 THEN Inf(1)
    ELSE IF a < 0 THEN Inf(-1)
    ELSE NaN

\* numpy.nan_to_num with its defaults: nan -> 0.0, +-inf -> +-DBL_MAX.
NanToNum(x) ==
    IF x.k = "nan" THEN Fin(0, 1)
    ELSE IF x.k = "inf" THEN Big(x.n, 1)
    ELSE x

\* 1 - x in double precision: 1 is absorbed by a multiple of DBL_MAX.
OneMinus(x) ==
    IF x.k = "fin" THEN Fin(x.d - x.n, x.d)
    ELSE IF x.k = "big" THEN Big(-x.n, x.d)
    ELSE IF x.k = "inf" THEN Inf(-x.n)
    ELSE NaN

\* prop_values at one voxel: the quotient, nan and inf replaced.
PropValue(temp_stat_val, stat_value) ==
    NanToNum(TrueDivide(temp_stat_val, stat_value))

\* voxelwise_stat_prop_values at one voxel.
VoxelwiseStatProp(temp_stat_val, stat_value) ==
    OneMinus(PropValue(temp_stat_val, stat_value))

(***************************************************************************)
(* Volumes, the affine and the study ids.                                  *)
(***************************************************************************)
Grid == 0..(NVox - 1)

\* The affine of every volume: voxel i lies at world coordinate scale*i + origin.
Affine == [scale |-> VoxSize, origin |-> 0]

StudyId(i) == "study-" \o ToString(i)
StudyIds == {StudyId(i) : i \in 1..MaxStudies}

\* a/b rounded to the nearest integer (b > 0).
RoundDiv(a, b) == (2 * a + b) \div (2 * b)

\* nimare.utils.mm2vox: a world coordinate to a voxel index, through the
\* inverse of the affine, rounded to the nearest voxel.
Mm2Vox(x, affine) == RoundDiv(x - affine.origin, affine.scale)

\* The elements of a set of integers in increasing order.
RECURSIVE SortedSeq(_)
SortedSeq(S) ==
    IF S = {} THEN <<>>
    ELSE LET m == CHOOSE x \in S : \A y \in S : x <= y
         IN  <<m>> \o SortedSeq(S \ {m})

\* numpy.unique of a volume: its distinct values, sorted.
Unique(arr) == SortedSeq({arr[v] : v \in DOMAIN arr})

\* cluster_ids = sorted(list(np.unique(label_arr)[1:])): every distinct value
\* but the smallest.
ClusterIds(label_arr) == Tail(Unique(label_arr))

\* The Euclidean distance of two voxels (scipy's cdist on one axis).
Dist(v, w) == Abs(v - w)

(***************************************************************************)
(* FocusCounter._transform.                                                *)
(***************************************************************************)
\* coordinates_df.loc[coordinates_df["id"] == expid]: the rows of one study,
\* in the order of the table.
RECURSIVE RowsOfStudy(_, _)
RowsOfStudy(coordinates_df, expid) ==
    IF coordinates_df = <<>> THEN <<>>
    ELSE IF Head(coordinates_df).id = expid
         THEN <<Head(coordinates_df)>> \o RowsOfStudy(Tail(coordinates_df), expid)
         ELSE RowsOfStudy(Tail(coordinates_df), expid)

\* The mutant of NearCluster: peaks at distance 1 are taken in as well.
NearClusterInclusive(cluster_idx, p) == \E v \in cluster_idx : Dist(v, p) <= 1

\* One column of (cdist(cluster_idx.T, ijk) < 1).any(axis=0): whether the peak
\* voxel p is closer than 1 to some voxel of the cluster.
NearCluster(cluster_idx, p) == \E v \in cluster_idx : Dist(v, p) < 1

\* focus_counts of one study: per cluster id, the number of its peaks near
\* the cluster.
FocusCounts(expid, coordinates_df, labeled_cluster_map, affine) ==
    LET coords == RowsOfStudy(coordinates_df, expid)
        ijk == [i \in 1..Len(coords) |-> Mm2Vox(coords[i].x, affine)]
        clust_ids == ClusterIds(labeled_cluster_map)
        cluster_idx(c_val) ==
            {v \in DOMAIN labeled_cluster_map : labeled_cluster_map[v] = c_val}
    IN  [j \in 1..Len(clust_ids) |->
            Cardinality({i \in 1..Len(ijk) :
                            NearCluster(cluster_idx(clust_ids[j]), ijk[i])})]

(***************************************************************************)
(* The cluster extractor (nimare.utils._get_clusters_table).               *)
(***************************************************************************)
\* The voxels of one tail above the threshold.
Binarized(arr, sign, stat_threshold) ==
    {v \in DOMAIN arr : sign * arr[v] > stat_threshold}

\* Connected components by faces, numbered from 1 in scan order; 0 elsewhere.
LabelArr(B) ==
    [v \in Grid |->
        IF v \notin B THEN 0
        ELSE Cardinality({u \in B : u <= v /\ (u - 1) \notin B})]

\* Whether any voxel of the target map is negative:
\* two_sided = (target_img.get_fdata() < 0).any()
TwoSided(target_arr) == \E v \in DOMAIN target_arr : target_arr[v] < 0

\* stat_threshold = self.voxel_thresh or 0; None is the empty tuple, a
\* number t the tuple <<t>>.
StatThreshold(voxel_thresh) == IF voxel_thresh = <<>> THEN 0 ELSE voxel_thresh[1]

\* The signs the extractor clusters: both tails of a two-sided map.
ExtractorSigns(two_sided) == IF two_sided THEN <<1, -1>> ELSE <<1>>

\* The number of clusters of a label map.
NumClusters(label_arr) == Cardinality({label_arr[v] : v \in DOMAIN label_arr} \ {0})

\* The rows of the clusters table of one tail: one per cluster id, with its
\* peak statistic and its size in voxels.
ClusterRows(target_arr, sign, label_arr) ==
    [c \in 1..NumClusters(label_arr) |->
        LET voxels == {v \in DOMAIN label_arr : label_arr[v] = c}
        IN  [tail |-> sign,
             id |-> c,
             peak |-> CHOOSE m \in {sign * target_arr[v] : v \in voxels} :
                         \A v \in voxels : sign * target_arr[v] <= m,
             size |-> Cardinality(voxels)]]

\* _get_clusters_table(target_img, stat_threshold, two_sided=two_sided,
\* return_label_maps=True): the clusters table and one label map per sign.
GetClustersTable(target_arr, stat_threshold, two_sided) ==
    LET signs == ExtractorSigns(two_sided)
        maps == [k \in 1..Len(signs) |->
                    LabelArr(Binarized(target_arr, signs[k], stat_threshold))]
        rows(k) == ClusterRows(target_arr, signs[k], maps[k])
    IN  [clusters_table |-> IF Len(signs) = 2 THEN rows(1) \o rows(2) ELSE rows(1),
         label_maps |-> maps]

(***************************************************************************)
(* The Dataset and the Estimator (collaborators of the diagnostics).       *)
(***************************************************************************)
\* Dataset.slice(ids): a new Dataset of the studies named, with their rows.
Slice(dset, ids) ==
    LET In(id) == \E i \in 1..Len(ids) : ids[i] = id
    IN  [ids |-> SelectSeq(dset.ids, In),
         coordinates |-> SelectSeq(dset.coordinates, LAMBDA row : In(row.id))]

\* The study ids an Estimator retains when it is fitted: a coordinate-based
\* Estimator drops the studies without coordinates.
RetainedIds(dset) ==
    SelectSeq(dset.ids,
              LAMBDA id : \E i \in 1..Len(dset.coordinates) : dset.coordinates[i].id = id)

\* Estimator.inputs_ after fit(dset).
FitInputs(dset) ==
    [id |-> RetainedIds(dset),
     coordinates |-> Slice(dset, RetainedIds(dset)).coordinates]

\* The summary statistic of a fit: per voxel, the number of peaks of the
\* retained studies on that voxel.
StatMap(dset) ==
    [v \in Grid |->
        Cardinality({i \in 1..Len(dset.coordinates) :
                        Mm2Vox(dset.coordinates[i].x, Affine) = v})]

\* The maps of the MetaResult a fit returns, by name.
FitMaps(dset) ==
    <<[name |-> "stat", arr |-> StatMap(dset)],
      [name |-> "z", arr |-> [v \in Grid |-> 2 * StatMap(dset)[v]]]>>

\* The Estimator object after fit(dset): fit stores the Dataset and its inputs.
Fitted(dset) == [has_dataset |-> TRUE, dataset |-> dset, inputs_ |-> FitInputs(dset)]

\* name in result.maps
HasMap(maps, name) == \E i \in 1..Len(maps) : maps[i].name = name

\* result.get_map(name, return_type="array")
GetMap(maps, name) == maps[CHOOSE i \in 1..Len(maps) : maps[i].name = name].arr

\* The map the proportions are taken of: "est", else "stat", else "z".
TargetValueMap(maps) ==
    IF HasMap(maps, "est") THEN "est"
    ELSE IF HasMap(maps, "stat") THEN "stat"
    ELSE "z"

(***************************************************************************)
(* The maskers.                                                            *)
(***************************************************************************)
\* The voxels of the Estimator's mask: the whole volume.
Mask == Grid

\* original_masker.transform(img): the values of the voxels of the mask.
MaskerTransform(img) == [v \in Mask |-> img[v]]

\* original_masker.inverse_transform(vals): a volume, 0 outside the mask.
MaskerInverse(vals) == [v \in Grid |-> IF v \in Mask THEN vals[v] ELSE Fin(0, 1)]

\* x + y in double precision.
FAdd(x, y) ==
    IF x.k = "nan" \/ y.k = "nan" THEN NaN
    ELSE IF x.k = "inf" /\ y.k = "inf" THEN (IF x.n = y.n THEN x ELSE NaN)
    ELSE IF x.k = "inf" THEN x
    ELSE IF y.k = "inf" THEN y
    ELSE IF x.k = "fin" /\ y.k = "fin" THEN Fin(x.n * y.d + y.n * x.d, x.d * y.d)
    ELSE IF x.k = "fin" THEN y
    ELSE IF y.k = "fin" THEN x
    ELSE LET c == Fin(x.n * y.d + y.n * x.d, x.d * y.d)
         IN  IF c.n = 0 THEN Fin(0, 1)
             ELSE IF Abs(c.n) > c.d THEN Inf(IF c.n > 0 THEN 1 ELSE -1)
             ELSE Big(c.n, c.d)

\* x / n in double precision, n a positive count.
FDivInt(x, n) ==
    IF x.k = "fin" THEN Fin(x.n, x.d * n)
    ELSE IF x.k = "big" THEN Big(x.n, x.d * n)
    ELSE x

RECURSIVE FSum(_)
FSum(xs) == IF xs = <<>> THEN Fin(0, 1) ELSE FAdd(Head(xs), FSum(Tail(xs)))

\* cluster_masker.transform(img), the NiftiLabelsMasker fitted on the label
\* map: the mean of img over the voxels of each label but the background 0.
ClusterMeans(label_arr, img) ==
    LET labels == SortedSeq({label_arr[v] : v \in DOMAIN label_arr} \ {0})
        voxels(c) == SortedSeq({v \in DOMAIN label_arr : label_arr[v] = c})
    IN  [j \in 1..Len(labels) |->
            LET vs == voxels(labels[j])
            IN  FDivInt(FSum([i \in 1..Len(vs) |-> img[vs[i]]]), Len(vs))]

(***************************************************************************)
(* Jackknife._transform.                                                   *)
(***************************************************************************)
\* other_ids = [id_ for id_ in all_ids if id_ != expid]
OtherIds(all_ids, expid) == SelectSeq(all_ids, LAMBDA id : id # expid)

\* stat_prop_values of one study: the re-fit without it, the voxelwise
\* proportional reduction, and its mean per cluster.
JackknifeValues(expid, all_ids, dset, target_value_map, stat_values, label_arr) ==
    LET temp_dset == Slice(dset, OtherIds(all_ids, expid))
        temp_stat_vals == MaskerTransform(GetMap(FitMaps(temp_dset), target_value_map))
        voxelwise_stat_prop_values ==
            [v \in Mask |-> VoxelwiseStatProp(temp_stat_vals[v], stat_values[v])]
    IN  ClusterMeans(label_arr, MaskerInverse(voxelwise_stat_prop_values))

(***************************************************************************)
(* The contribution table (pandas) and the messages.                       *)
(***************************************************************************)
\* col_name = "PosTail" if sign == 1 else "NegTail"; f"{col_name} {int(c_id)}"
ColName(sign, c_id) ==
    (IF sign = 1 THEN "PosTail" ELSE "NegTail") \o " " \o ToString(c_id)

\* cols = [f"{col_name} {int(c_id)}" for c_id in cluster_ids]
Cols(sign, cluster_ids) ==
    [j \in 1..Len(cluster_ids) |-> ColName(sign, cluster_ids[j])]

\* signs = [1, -1] if len(label_maps) == 2 else [1]
Signs(label_maps) == IF Len(label_maps) = 2 THEN <<1, -1>> ELSE <<1>>

\* The number of rounds of "for sign, label_map in zip(signs, label_maps)".
NumRounds(label_maps) ==
    IF Len(Signs(label_maps)) < Len(label_maps)
    THEN Len(Signs(label_maps)) ELSE Len(label_maps)

\* pd.DataFrame(index=rows, columns=cols): every cell NaN.
EmptyTable(rows, cols) ==
    [index |-> rows,
     cols |-> cols,
     cells |-> [r \in 1..Len(rows) |-> [j \in 1..Len(cols) |-> NaN]]]

\* contribution_table.loc[expid] = vals: the cells of the rows labelled expid.
SetLoc(table, expid, vals) ==
    [table EXCEPT !.cells =
        [r \in 1..Len(table.index) |->
            IF table.index[r] = expid THEN vals ELSE table.cells[r]]]

\* The mutant of SetRows: the k-th result to finish goes to the k-th row.
RECURSIVE SetRowsByCompletion(_, _, _)
SetRowsByCompletion(table, results, done_order) ==
    IF done_order = <<>> THEN table
    ELSE LET k == Len(done_order)
             before == SetRowsByCompletion(table, results, SubSeq(done_order, 1, k - 1))
         IN  SetLoc(before, table.index[k], results[done_order[k]].vals)

\* for expid, vals in jackknife_results: contribution_table.loc[expid] = vals
\* (done_order, the order in which the tasks finished, is not used).
RECURSIVE SetRows(_, _, _)
SetRows(table, results, done_order) ==
    IF results = <<>> THEN table
    ELSE LET k == Len(results)
             before == SetRows(table, SubSeq(results, 1, k - 1), done_order)
         IN  SetLoc(before, results[k].expid, results[k].vals)

\* contribution_table.reset_index(): the index becomes the column "id".
ResetIndex(table) ==
    [cols |-> table.cols,
     rows |-> [r \in 1..Len(table.index) |->
                  [id |-> table.index[r],
                   cells |-> [j \in 1..Len(table.cols) |-> table.cells[r][j]]]]]

RECURSIVE ConcatCols(_)
ConcatCols(tables) ==
    IF tables = <<>> THEN <<>> ELSE Head(tables).cols \o ConcatCols(Tail(tables))

RECURSIVE ConcatRows(_, _)
ConcatRows(tables, before) ==
    IF tables = <<>> THEN <<>>
    ELSE LET t == Head(tables)
             after == Len(ConcatCols(Tail(tables)))
             wide(row) ==
                 [id |-> row.id,
                  cells |-> [j \in 1..before |-> NaN] \o row.cells
                            \o [j \in 1..after |-> NaN]]
         IN  [r \in 1..Len(t.rows) |-> wide(t.rows[r])]
             \o ConcatRows(Tail(tables), before + Len(t.cols))

\* pd.concat(contribution_tables, ignore_index=True, sort=False): the rows of
\* the tables one after the other, over the columns of all of them; a cell of
\* a column of another table is NaN.
Concat(tables) == [cols |-> ConcatCols(tables), rows |-> ConcatRows(tables, 0)]

\* The mutant of IdOnlyTable: the table is made without its data.
IdOnlyTableNoRows(rows) == [cols |-> <<>>, rows |-> <<>>]

\* pd.DataFrame(columns=["id"], data=rows): one row per study, no data column.
IdOnlyTable(rows) ==
    [cols |-> <<>>, rows |-> [r \in 1..Len(rows) |-> [id |-> rows[r], cells |-> <<>>]]]

\* The vector a task returned as table cells: a count is the number itself.
AsCells(diag, out) ==
    IF diag = "FocusCounter" THEN [j \in 1..Len(out) |-> Fin(out[j], 1)] ELSE out

\* ", ".join(items), as the pieces of the text.
RECURSIVE Join(_, _)
Join(items, sep) ==
    IF items = <<>> THEN <<>>
    ELSE IF Len(items) = 1 THEN items
    ELSE <<Head(items), sep>> \o Join(Tail(items), sep)

\* The mutant of AvailableMaps: the last map of the result is left out.
AvailableMapsButLast(maps) == [i \in 1..(Len(maps) - 1) |-> "'" \o maps[i].name \o "'"]

\* available_maps = [f"'{m}'" for m in result.maps.keys()]
AvailableMaps(maps) == [i \in 1..Len(maps) |-> "'" \o maps[i].name \o "'"]

\* The text of the ValueError for a target map the result does not hold, as
\* the pieces it is put together from.
TargetMissingMessage(target_image, maps) ==
    <<"Target image ('", target_image,
      "') not present in result. Available maps in result are: ">>
    \o Join(AvailableMaps(maps), ", ") \o <<".">>

NoError == [type |-> "none", step |-> "", msg |-> <<>>]

\* The mutant of HasDataset: the check is left out.
HasDatasetUnchecked(est) == TRUE

\* hasattr(result.estimator, "dataset")
HasDataset(est) == est.has_dataset

\* The mutant of NoDatasetError: the error is raised as a ValueError.
NoDatasetErrorAsValueError ==
    [type |-> "ValueError", step |-> "dataset", msg |-> <<>>]

\* The error of lines 105-110 and 317-322.
NoDatasetError ==
    [type |-> "AttributeError",
     step |-> "dataset",
     msg |-> <<"MetaResult was not generated by an Estimator with a dataset attribute. ",
               "This may be because the Estimator was a pairwise Estimator. ",
               "The Jackknife method does not currently work with pairwise Estimators.">>]

\* The mutant of TaskEstimator: the task fits the Estimator it was handed.
TaskEstimatorShared(heap_, estimator) == estimator

\* estimator = copy.deepcopy(estimator) in Jackknife._transform: the object the
\* task fits is a new one.
TaskEstimator(heap_, estimator) == Len(heap_) + 1

\* The mutant of NextToSubmit: the studies are submitted last to first.
NextToSubmitReversed(pending) == CHOOSE i \in pending : \A j \in pending : j <= i

\* "for study_id in meta_ids": the next task submitted is the first one not
\* submitted yet.
NextToSubmit(pending) == CHOOSE i \in pending : \A j \in pending : i <= j

(***************************************************************************)
(* State.                                                                  *)
(***************************************************************************)
VARIABLES
    pv_pc,      \* Jackknife._transform's position in the voxelwise computation
    pv_stat,    \* stat_values at the voxel: the original statistic
    pv_temp,    \* temp_stat_vals at the voxel: the statistic of the re-fit
    pv_prop,    \* prop_values at the voxel
    pv_out,     \* voxelwise_stat_prop_values at the voxel
    fc_pc,      \* FocusCounter._transform's position
    fc_coords,  \* coordinates_df: the rows [id, x] of the coordinate table
    fc_labels,  \* labeled_cluster_map
    fc_expid,   \* expid
    fc_counts,  \* focus_counts
    self,       \* the diagnostic: its class and its configuration
    res_maps,   \* result.maps: the maps of the MetaResult, in the order of the dict
    heap,       \* the Estimator objects; heap[1] is result.estimator
    pc,         \* the position of transform
    error,      \* the exception transform raised
    log,        \* the records logged
    frame,      \* the local variables of transform
    tasks,      \* the per-study tasks of the running Parallel call
    done_order, \* the tasks of the running Parallel call, in the order they finished
    submitted,  \* history: every task submitted, [round, expid], in order
    task_log,   \* history: every task finished, [round, expid, out]
    ret,        \* the value transform returned
    ff_pc,      \* FocusFilter: "ready" between calls of transform
    ff_self,    \* the FocusFilter: its masker, <<>> for None
    ff_heap,    \* the Dataset objects; a Dataset is named by its position
    ff_arg,     \* the Dataset handed to FocusFilter.transform
    ff_rets,    \* history: the Dataset each call of transform returned
    ff_before,  \* history: the Dataset objects at the entry of each call
    ff_log,     \* the records FocusFilter logged
    wf_pc,      \* the position of cbma_workflow
    wf_call,    \* the arguments cbma_workflow was called with
    wf_frame,   \* the local variables of cbma_workflow
    wf_error,   \* the exception cbma_workflow raised
    wf_log,     \* the records cbma_workflow logged
    wf_tables,  \* corr_results.tables: the named tables, in the order of the dict
    wf_hist     \* history: what each diagnostic.transform of the loop returned

pvVars == <<pv_pc, pv_stat, pv_temp, pv_prop, pv_out>>
fcVars == <<fc_pc, fc_coords, fc_labels, fc_expid, fc_counts>>
trVars == <<self, res_maps, heap, pc, error, log, frame, tasks, done_order,
            submitted, task_log, ret>>
ffVars == <<ff_pc, ff_self, ff_heap, ff_arg, ff_rets, ff_before, ff_log>>
wfVars == <<wf_pc, wf_call, wf_frame, wf_error, wf_log, wf_tables, wf_hist>>
vars == <<pvVars, fcVars, trVars, ffVars, wfVars>>

Vals == (-MaxVal)..MaxVal
NoValue == [k |-> "none", n |-> 0, d |-> 1]

(***************************************************************************)
(* The voxelwise proportional reduction of Jackknife._transform, on one    *)
(* voxel with freely drawn statistics.                                     *)
(***************************************************************************)
PropIdle ==
    /\ pv_pc = "idle" /\ pv_stat = 0 /\ pv_temp = 0
    /\ pv_prop = NoValue /\ pv_out = NoValue

FcIdle ==
    /\ fc_pc = "idle" /\ fc_coords = <<>> /\ fc_labels = [v \in Grid |-> 0]
    /\ fc_expid = "" /\ fc_counts = <<>>

NoFrame ==
    [estimator |-> 0, dset |-> [ids |-> <<>>, coordinates |-> <<>>],
     target_img |-> [v \in Grid |-> 0], target_value_map |-> "",
     stat_values |-> [v \in Grid |-> 0], meta_ids |-> <<>>,
     clusters_table |-> <<>>, label_maps |-> <<>>, k |-> 0,
     contribution_table |-> EmptyTable(<<>>, <<>>), contribution_tables |-> <<>>]

NoReturn == [contribution_table |-> IdOnlyTable(<<>>), clusters_table |-> <<>>,
             label_maps |-> <<>>]

TrIdle ==
    /\ self = [diag |-> "", target_image |-> "", voxel_thresh |-> <<>>, n_cores |-> 1]
    /\ res_maps = <<>> /\ heap = <<>> /\ pc = "idle" /\ error = NoError
    /\ log = <<>> /\ frame = NoFrame /\ tasks = <<>> /\ done_order = <<>>
    /\ submitted = <<>> /\ task_log = <<>> /\ ret = NoReturn

FfIdle ==
    /\ ff_pc = "idle" /\ ff_self = [masker |-> <<>>] /\ ff_heap = <<>>
    /\ ff_arg = 0 /\ ff_rets = <<>> /\ ff_before = <<>> /\ ff_log = <<>>

\* An argument of cbma_workflow: None, a class, a string, an instance of a
\* class, or a tuple of diagnostic instances.
Arg(kind, name) == [kind |-> kind, name |-> name, items |-> <<>>]
NoArg == Arg("none", "")

NoWfFrame ==
    [estimator |-> NoArg, corrector |-> NoArg, diagnostics |-> NoArg,
     img_keys |-> <<>>, i |-> 0]

WfIdle ==
    /\ wf_pc = "idle"
    /\ wf_call = [dataset |-> [ids |-> <<>>, coordinates |-> <<>>],
                  estimator |-> NoArg, corrector |-> NoArg, diagnostics |-> NoArg]
    /\ wf_frame = NoWfFrame /\ wf_error = NoError /\ wf_log = <<>>
    /\ wf_tables = <<>> /\ wf_hist = <<>>

PropInit ==
    /\ FcIdle
    /\ TrIdle
    /\ FfIdle
    /\ WfIdle
    /\ pv_pc = "divide"
    /\ pv_stat \in Vals
    /\ pv_temp \in Vals
    /\ pv_prop = NoValue
    /\ pv_out = NoValue

\* prop_values = nan_to_num(true_divide(temp_stat_vals, stat_values))
PropDivide ==
    /\ pv_pc = "divide"
    /\ pv_prop' = PropValue(pv_temp, pv_stat)
    /\ pv_pc' = "subtract"
    /\ UNCHANGED <<pv_stat, pv_temp, pv_out, fcVars, trVars, ffVars, wfVars>>

\* voxelwise_stat_prop_values = 1 - prop_values
PropSubtract ==
    /\ pv_pc = "subtract"
    /\ pv_out' = OneMinus(pv_prop)
    /\ pv_pc' = "done"
    /\ UNCHANGED <<pv_stat, pv_temp, pv_prop, fcVars, trVars, ffVars, wfVars>>

PropNext == PropDivide \/ PropSubtract

SpecProp == PropInit /\ [][PropNext]_vars

(***************************************************************************)
(* C1: in Jackknife's per-study step the voxelwise proportional change is  *)
(* 1 - reduced/original, and it is 0 at every voxel whose original value   *)
(* is 0, whatever the reduced value is.                                    *)
(***************************************************************************)
C1_ChangeIsZeroWhereOriginalIsZero ==
    pv_pc = "done" =>
        /\ pv_out.k = "fin"
        /\ pv_stat # 0 => pv_out.n * pv_stat = (pv_stat - pv_temp) * pv_out.d
        /\ pv_stat = 0 => pv_out.n = 0

(***************************************************************************)
(* FocusCounter._transform on a freely drawn coordinate table and label    *)
(* map.                                                                    *)
(***************************************************************************)
\* World coordinates: the voxel centres, and one point off centre that rounds
\* up to voxel 1.
WorldXs == {VoxSize * i : i \in Grid} \cup {VoxSize - 1}

CoordRows == [id : StudyIds, x : WorldXs]
CoordTables == UNION {[1..n -> CoordRows] : n \in 0..MaxRows}

\* The label maps the extractor can return: the components of any set of
\* significant voxels.
LabelMaps == {LabelArr(B) : B \in SUBSET Grid}

CountInit ==
    /\ PropIdle
    /\ TrIdle
    /\ FfIdle
    /\ WfIdle
    /\ fc_pc = "call"
    /\ fc_coords \in CoordTables
    /\ fc_labels \in LabelMaps
    /\ fc_expid = ""
    /\ fc_counts = <<>>

\* One call of FocusCounter._transform(expid, coordinates_df, label_arr, affine).
CountStudy(expid) ==
    /\ fc_pc = "call"
    /\ fc_expid' = expid
    /\ fc_counts' = FocusCounts(expid, fc_coords, fc_labels, Affine)
    /\ fc_pc' = "returned"
    /\ UNCHANGED <<fc_coords, fc_labels, pvVars, trVars, ffVars, wfVars>>

CountNext == \E expid \in StudyIds : CountStudy(expid)

SpecCount == CountInit /\ [][CountNext]_vars

\* The indices of the rows of the coordinate table that belong to study expid.
FcPeaks(expid) == {i \in 1..Len(fc_coords) : fc_coords[i].id = expid}
FcVoxel(i) == Mm2Vox(fc_coords[i].x, Affine)

(***************************************************************************)
(* C2 as stated: the count of a cluster is the number of the study's peaks *)
(* within a Euclidean voxel distance of 1 of a voxel of the cluster, the   *)
(* peaks at distance exactly 1 included.                                   *)
(***************************************************************************)
C2_CountsPeaksWithinDistanceOne ==
    fc_pc = "returned" =>
        \A j \in 1..Len(fc_counts) :
            fc_counts[j] =
                Cardinality({i \in FcPeaks(fc_expid) :
                    \E v \in Grid :
                        /\ fc_labels[v] = ClusterIds(fc_labels)[j]
                        /\ (v - FcVoxel(i)) \in {-1, 0, 1}})

(***************************************************************************)
(* C2 as amended: the count of a cluster is the number of the study's      *)
(* peaks whose voxel is a voxel of the cluster; a peak at distance 1 of    *)
(* the cluster is not counted.                                             *)
(***************************************************************************)
C2_CountsPeaksInsideCluster ==
    fc_pc = "returned" =>
        \A j \in 1..Len(fc_counts) :
            fc_counts[j] =
                Cardinality({i \in FcPeaks(fc_expid) :
                    /\ FcVoxel(i) \in Grid
                    /\ fc_labels[FcVoxel(i)] = ClusterIds(fc_labels)[j]})

\* A study with one peak inside a cluster and one peak on a voxel that touches
\* the cluster by a face has been counted.
C2_Witness ==
    /\ fc_pc = "returned"
    /\ Len(fc_counts) >= 1
    /\ fc_counts[1] = 1
    /\ \E i \in FcPeaks(fc_expid) :
          /\ FcVoxel(i) \in Grid
          /\ fc_labels[FcVoxel(i)] = 0
          /\ \E v \in Grid : fc_labels[v] = ClusterIds(fc_labels)[1] /\ Dist(v, FcVoxel(i)) = 1
    /\ \E i \in FcPeaks(fc_expid) :
          FcVoxel(i) \in Grid /\ fc_labels[FcVoxel(i)] = ClusterIds(fc_labels)[1]

(***************************************************************************)
(* Jackknife.transform and FocusCounter.transform.                         *)
(***************************************************************************)
\* The default of target_image, and a second corrected map of a result.
DefaultTarget == "z_desc-size_level-cluster_corr-FWE_method-montecarlo"
VoxelCorr == "z_level-voxel_corr-FWE_method-montecarlo"

\* The corrected maps a result holds beside the maps of the fit.
CorrLists == {<<>>, <<VoxelCorr>>, <<VoxelCorr, DefaultTarget>>}

TargetVals == {-1, 0, 1}

AllIds == [i \in 1..MaxStudies |-> StudyId(i)]
Peak(i, x) == [id |-> StudyId(i), x |-> x]

\* Study i has one peak, on the centre of voxel (i - 1) mod NVox.
SpreadDataset ==
    [ids |-> AllIds,
     coordinates |-> [i \in 1..MaxStudies |-> Peak(i, VoxSize * ((i - 1) % NVox))]]

\* Every study has a peak on voxel 0; the first study has one more, off the
\* centre of voxel 1.
StackedDataset ==
    [ids |-> AllIds,
     coordinates |-> <<Peak(1, VoxSize - 1)>> \o [i \in 1..MaxStudies |-> Peak(i, 0)]]

\* The last study has no coordinates: the Estimator does not retain it.
SparseDataset ==
    [ids |-> AllIds,
     coordinates |-> [i \in 1..(MaxStudies - 1) |-> Peak(i, 0)]]

Datasets == {SpreadDataset, StackedDataset, SparseDataset}

\* An Estimator that keeps no Dataset (a pairwise Estimator).
Pairwise(dset) ==
    [has_dataset |-> FALSE, dataset |-> [ids |-> <<>>, coordinates |-> <<>>],
     inputs_ |-> FitInputs(dset)]

Init ==
    /\ PropIdle
    /\ FcIdle
    /\ FfIdle
    /\ WfIdle
    /\ self \in [diag : {"Jackknife", "FocusCounter"},
                 target_image : {DefaultTarget},
                 voxel_thresh : {<<>>, <<1>>},
                 n_cores : {1, 2}]
    /\ \E dset \in Datasets, retains \in BOOLEAN, corr \in CorrLists,
          target_arr \in [Grid -> TargetVals] :
          /\ heap = <<IF retains THEN Fitted(dset) ELSE Pairwise(dset)>>
          /\ res_maps = FitMaps(dset)
                        \o [i \in 1..Len(corr) |-> [name |-> corr[i], arr |-> target_arr]]
    /\ pc = "start"
    /\ error = NoError
    /\ log = <<>>
    /\ frame = NoFrame
    /\ tasks = <<>>
    /\ done_order = <<>>
    /\ submitted = <<>>
    /\ task_log = <<>>
    /\ ret = NoReturn

\* Lines 105-115 and 317-326: the Estimator must hold a Dataset; it is copied.
CheckDataset ==
    /\ pc = "start"
    /\ IF ~HasDataset(heap[1])
       THEN /\ error' = NoDatasetError
            /\ pc' = "raised"
            /\ UNCHANGED <<heap, frame>>
       ELSE /\ heap' = Append(heap, heap[1])
            /\ frame' = [frame EXCEPT
                            !.estimator = Len(heap) + 1,
                            !.dset = IF self.diag = "Jackknife"
                                     THEN heap[1].dataset ELSE @]
            /\ pc' = "target"
            /\ UNCHANGED error
    /\ UNCHANGED <<pvVars, fcVars, ffVars, wfVars, self, res_maps, log, tasks, done_order,
                   submitted, task_log, ret>>

\* Lines 117-125 and 328-336: the target map must be a map of the result.
CollectTarget ==
    /\ pc = "target"
    /\ IF HasMap(res_maps, self.target_image)
       THEN /\ frame' = [frame EXCEPT !.target_img = GetMap(res_maps, self.target_image)]
            /\ pc' = "clusters"
            /\ UNCHANGED error
       ELSE /\ error' = [type |-> "ValueError", step |-> "target",
                         msg |-> TargetMissingMessage(self.target_image, res_maps)]
            /\ pc' = "raised"
            /\ UNCHANGED frame
    /\ UNCHANGED <<pvVars, fcVars, ffVars, wfVars, self, res_maps, heap, log, tasks, done_order,
                   submitted, task_log, ret>>

\* Lines 127-153 and 338-357: the value map, the study ids, the clusters; with
\* no cluster, a warning and the table of the study ids alone.
GetClusters ==
    LET value_map == IF self.diag = "Jackknife" THEN TargetValueMap(res_maps) ELSE ""
        meta_ids == heap[frame.estimator].inputs_.id
        found == GetClustersTable(frame.target_img, StatThreshold(self.voxel_thresh),
                                  TwoSided(frame.target_img))
    IN  /\ pc = "clusters"
        /\ frame' = [frame EXCEPT
                        !.target_value_map = value_map,
                        !.stat_values = IF self.diag = "Jackknife"
                                        THEN GetMap(res_maps, value_map) ELSE @,
                        !.meta_ids = meta_ids,
                        !.clusters_table = found.clusters_table,
                        !.label_maps = found.label_maps,
                        !.k = 1]
        /\ IF Len(found.clusters_table) = 0
           THEN /\ log' = Append(log, [level |-> "WARNING", msg |-> "No clusters found"])
                /\ ret' = [contribution_table |-> IdOnlyTable(meta_ids),
                           clusters_table |-> found.clusters_table,
                           label_maps |-> found.label_maps]
                /\ pc' = "done"
           ELSE /\ pc' = "sign"
                /\ UNCHANGED <<log, ret>>
        /\ UNCHANGED <<pvVars, fcVars, ffVars, wfVars, self, res_maps, heap, error, tasks, done_order,
                       submitted, task_log>>

\* Lines 157-168 and 361-369: the columns and the empty table of one sign.
BeginSign ==
    LET sign == Signs(frame.label_maps)[frame.k]
        cluster_ids == ClusterIds(frame.label_maps[frame.k])
    IN  /\ pc = "sign"
        /\ frame' = [frame EXCEPT !.contribution_table =
                        EmptyTable(frame.meta_ids, Cols(sign, cluster_ids))]
        /\ tasks' = [i \in 1..Len(frame.meta_ids) |->
                        [state |-> "pending", est |-> 0, out |-> <<>>]]
        /\ done_order' = <<>>
        /\ pc' = "parallel"
        /\ UNCHANGED <<pvVars, fcVars, ffVars, wfVars, self, res_maps, heap, error, log, submitted,
                       task_log, ret>>

Pending == {i \in 1..Len(tasks) : tasks[i].state = "pending"}
Running == {i \in 1..Len(tasks) : tasks[i].state = "running"}

\* Lines 171-183 and 372-380: Parallel hands the next study to a free worker.
\* A Jackknife task starts by copying the Estimator (line 206).
Submit ==
    /\ pc = "parallel"
    /\ Pending # {}
    /\ Cardinality(Running) < self.n_cores
    /\ LET i == NextToSubmit(Pending)
           ref == IF self.diag = "Jackknife"
                  THEN TaskEstimator(heap, frame.estimator) ELSE 0
       IN  /\ heap' = IF ref > Len(heap) THEN Append(heap, heap[frame.estimator]) ELSE heap
           /\ tasks' = [tasks EXCEPT ![i] = [state |-> "running", est |-> ref, out |-> <<>>]]
           /\ submitted' = Append(submitted, [k |-> frame.k, expid |-> frame.meta_ids[i]])
    /\ UNCHANGED <<pvVars, fcVars, ffVars, wfVars, self, res_maps, pc, error, log, frame, done_order,
                   task_log, ret>>

\* Lines 206-234 and 392-408: a task runs to its end. A Jackknife task fits its
\* Estimator to the Dataset without its study.
Finish(i) ==
    /\ pc = "parallel"
    /\ i \in Running
    /\ LET expid == frame.meta_ids[i]
           label_arr == frame.label_maps[frame.k]
           out == IF self.diag = "Jackknife"
                  THEN JackknifeValues(expid, frame.meta_ids, frame.dset,
                                       frame.target_value_map, frame.stat_values,
                                       label_arr)
                  ELSE FocusCounts(expid, heap[frame.estimator].inputs_.coordinates,
                                   label_arr, Affine)
       IN  /\ tasks' = [tasks EXCEPT ![i] = [@ EXCEPT !.state = "done", !.out = out]]
           /\ task_log' = Append(task_log, [k |-> frame.k, expid |-> expid, out |-> out])
           /\ heap' = IF self.diag = "Jackknife"
                      THEN [heap EXCEPT ![tasks[i].est] =
                               Fitted(Slice(frame.dset, OtherIds(frame.meta_ids, expid)))]
                      ELSE heap
    /\ done_order' = Append(done_order, i)
    /\ UNCHANGED <<pvVars, fcVars, ffVars, wfVars, self, res_maps, pc, error, log, frame, submitted, ret>>

\* Lines 185-193 and 382-390: the results, in the order of submission, are
\* written into the table; after the last sign the tables are concatenated.
Assemble ==
    LET results == [i \in 1..Len(tasks) |->
                       [expid |-> frame.meta_ids[i],
                        vals |-> AsCells(self.diag, tasks[i].out)]]
        table == SetRows(frame.contribution_table, results, done_order)
        tables == Append(frame.contribution_tables, ResetIndex(table))
    IN  /\ pc = "parallel"
        /\ Pending = {} /\ Running = {}
        /\ IF \E i \in 1..Len(results) :
                 Len(results[i].vals) # Len(frame.contribution_table.cols)
           THEN \* pandas refuses a row of another length than the columns
                /\ error' = [type |-> "ValueError", step |-> "assemble", msg |-> <<>>]
                /\ pc' = "raised"
                /\ UNCHANGED <<frame, ret>>
           ELSE /\ UNCHANGED error
                /\ IF frame.k < NumRounds(frame.label_maps)
                   THEN /\ frame' = [frame EXCEPT !.contribution_table = table,
                                                  !.contribution_tables = tables,
                                                  !.k = @ + 1]
                        /\ pc' = "sign"
                        /\ UNCHANGED ret
                   ELSE /\ frame' = [frame EXCEPT !.contribution_table = table,
                                                  !.contribution_tables = tables]
                        /\ ret' = [contribution_table |-> Concat(tables),
                                   clusters_table |-> frame.clusters_table,
                                   label_maps |-> frame.label_maps]
                        /\ pc' = "done"
        /\ UNCHANGED <<pvVars, fcVars, ffVars, wfVars, self, res_maps, heap, log, tasks, done_order,
                       submitted, task_log>>

Next ==
    \/ CheckDataset
    \/ CollectTarget
    \/ GetClusters
    \/ BeginSign
    \/ Submit
    \/ \E i \in 1..MaxStudies : Finish(i)
    \/ Assemble

Spec == Init /\ [][Next]_vars

(***************************************************************************)
(* What the claims speak of.                                               *)
(***************************************************************************)
\* The study ids the Estimator of the result retains.
RetainedStudyIds == heap[1].inputs_.id

\* transform is past its two checks and neither has failed.
PastChecks == pc \in {"clusters", "sign", "parallel", "done"} \/ error.step = "assemble"

\* transform has extracted the clusters.
PastClusters == pc \in {"sign", "parallel", "done"} \/ error.step = "assemble"

\* The target map of the result.
TargetArr == GetMap(res_maps, self.target_image)

\* No voxel of the target map is above the threshold, in either tail.
NoVoxelAboveThreshold ==
    \A v \in Grid :
        /\ TargetArr[v] <= StatThreshold(self.voxel_thresh)
        /\ -TargetArr[v] <= StatThreshold(self.voxel_thresh)

ListedNames(msg) == [j \in 1..((Len(msg) - 3) \div 2) |-> msg[2 * j + 2]]

C5_MessageListsEveryMap ==
    (heap[1].has_dataset /\ ~HasMap(res_maps, self.target_image)
        /\ pc \notin {"start", "target"}) =>
        /\ pc = "raised"
        /\ error.type = "ValueError"
        /\ error.msg[2] = self.target_image
        /\ Len(ListedNames(error.msg)) = Len(res_maps)
        /\ \A j \in 1..Len(res_maps) :
              ListedNames(error.msg)[j] = "'" \o res_maps[j].name \o "'"
        /\ \A j \in 1..(Len(res_maps) - 1) : error.msg[2 * j + 3] = ", "
        /\ error.msg[Len(error.msg)] = "."

C5_Witness ==
    /\ pc = "raised"
    /\ error.step = "target"
    /\ Len(res_maps) = 3
    /\ ListedNames(error.msg) = <<"'stat'", "'z'", "'" \o VoxelCorr \o "'">>

(***************************************************************************)
(* C6: both precondition failures are raised before any per-study task is  *)
(* submitted: no task is ever submitted when a precondition is violated,   *)
(* and no step raises a precondition error once a task has been submitted. *)
(***************************************************************************)
PreconditionViolated ==
    ~heap[1].has_dataset \/ ~HasMap(res_maps, self.target_image)

PreconditionError == error.step \in {"dataset", "target"}

C6_PreconditionsBeforeTasks ==
    /\ [](PreconditionViolated => (submitted = <<>> /\ \A i \in 1..Len(tasks) :
                                                          tasks[i].state = "pending"))
    /\ [](PreconditionError => (submitted = <<>> /\ pc = "raised"))
    /\ [][submitted # <<>> => ~PreconditionError']_vars

C6_Witness ==
    /\ pc = "raised"
    /\ error.step = "target"
    /\ heap[1].has_dataset
    /\ Len(heap) = 2
    /\ submitted = <<>>

(***************************************************************************)
(* C7: for each sign, the data columns of the contribution table are, one  *)
(* to one, the cluster ids of that sign in the clusters table and in the   *)
(* label map: every cluster id has its column "PosTail id" or "NegTail id" *)
(* and no other column exists; also when no voxel of the label map holds   *)
(* the background value 0.                                                 *)
(***************************************************************************)
\* The cluster ids of a sign in the clusters table.
TableIds(sign) ==
    {frame.clusters_table[r].id :
        r \in {q \in 1..Len(frame.clusters_table) : frame.clusters_table[q].tail = sign}}

C7_ColumnsMatchClusterIds ==
    pc = "parallel" =>
        LET sign == Signs(frame.label_maps)[frame.k]
            label_arr == frame.label_maps[frame.k]
            cols == frame.contribution_table.cols
        IN  /\ TableIds(sign) = {label_arr[v] : v \in Grid} \ {0}
            /\ {cols[j] : j \in 1..Len(cols)} = {ColName(sign, c) : c \in TableIds(sign)}
            /\ Len(cols) = Cardinality(TableIds(sign))

(***************************************************************************)
(* C8: the assembly does not depend on the order in which the tasks        *)
(* finish: the row of study s in the contribution table holds, under the   *)
(* columns of each sign, the vector the task of s computed for that sign.  *)
(***************************************************************************)
\* The number of columns of the signs before round k.
RECURSIVE ColsBefore(_)
ColsBefore(k) ==
    IF k <= 1 THEN 0
    ELSE ColsBefore(k - 1) + Len(frame.contribution_tables[k - 1].cols)

\* The rows of the returned table that stand for study expid in round k.
RowsFor(k, expid) ==
    {p \in 1..Len(ret.contribution_table.rows) :
        /\ ((p - 1) \div Len(frame.meta_ids)) + 1 = k
        /\ ret.contribution_table.rows[p].id = expid}

C8_RowsHoldTheirStudysResult ==
    (pc = "done" /\ task_log # <<>>) =>
        \A e \in 1..Len(task_log) :
            LET k == task_log[e].k
                out == AsCells(self.diag, task_log[e].out)
            IN  /\ Cardinality(RowsFor(k, task_log[e].expid)) = 1
                /\ \A p \in RowsFor(k, task_log[e].expid) :
                      SubSeq(ret.contribution_table.rows[p].cells,
                             ColsBefore(k) + 1, ColsBefore(k) + Len(out)) = out

\* The tasks of the last round finished in another order than they were
\* submitted in, with different results, and the table is returned.
C8_Witness ==
    /\ pc = "done"
    /\ Len(done_order) >= 2
    /\ done_order[1] > done_order[2]
    /\ tasks[1].out # tasks[2].out
    /\ Len(tasks[1].out) >= 1

(***************************************************************************)
(* C9: Jackknife.transform never changes the result or its Estimator:      *)
(* every task fits a copy of its own, so the Estimator of the result, its  *)
(* Dataset and the maps of the result stay as they were, and no two tasks  *)
(* share an Estimator.                                                     *)
(***************************************************************************)
Started == {i \in 1..Len(tasks) : tasks[i].state # "pending"}

C9_InputsUnchanged ==
    /\ [][heap'[1] = heap[1] /\ res_maps' = res_maps]_vars
    /\ [](self.diag = "Jackknife" =>
            \A i \in Started :
                /\ tasks[i].est \notin {1, frame.estimator}
                /\ \A j \in Started : i # j => tasks[i].est # tasks[j].est)

\* Two tasks of a Jackknife have run at once, each on its own copy, and the
\* first has fitted its copy without its study.
C9_Witness ==
    /\ self.diag = "Jackknife"
    /\ Len(tasks) >= 2
    /\ tasks[1].state = "done"
    /\ tasks[2].state = "running"
    /\ done_order = <<1>>
    /\ Len(submitted) = 2
    /\ heap[tasks[1].est] # heap[1]
    /\ heap[tasks[2].est] = heap[1]

(***************************************************************************)
(* C10 as stated: one call of transform runs exactly one task per study:   *)
(* the number of tasks equals the number of retained study ids, for        *)
(* one-sided and two-sided target maps alike, submitted in the order of    *)
(* the retained study ids.                                                 *)
(***************************************************************************)
C10_OneTaskPerStudy ==
    pc = "done" =>
        /\ Len(submitted) = Len(RetainedStudyIds)
        /\ Len(task_log) = Len(RetainedStudyIds)
        /\ \A i \in 1..Len(submitted) : submitted[i].expid = RetainedStudyIds[i]

(***************************************************************************)
(* C10 as amended: a call of transform that returns has run one task per   *)
(* retained study for each sign of the target map (one sign for a map      *)
(* without negative voxels, two otherwise), each sign's tasks submitted in *)
(* the order of the retained study ids before those of the next sign; it   *)
(* has run no task when no cluster was found.                              *)
(***************************************************************************)
ExpectedRounds ==
    IF NoVoxelAboveThreshold THEN 0
    ELSE IF \E v \in Grid : TargetArr[v] < 0 THEN 2
    ELSE 1

C10_OneTaskPerStudyAndSign ==
    pc = "done" =>
        LET n == Len(RetainedStudyIds)
        IN  /\ Len(submitted) = n * ExpectedRounds
            /\ Len(task_log) = n * ExpectedRounds
            /\ \A i \in 1..Len(submitted) :
                  /\ submitted[i].k = ((i - 1) \div n) + 1
                  /\ submitted[i].expid = RetainedStudyIds[((i - 1) % n) + 1]

C10_Witness ==
    /\ pc = "done"
    /\ ExpectedRounds = 2
    /\ Len(RetainedStudyIds) = MaxStudies
    /\ Len(submitted) = 2 * MaxStudies
    /\ self.n_cores = 2

(***************************************************************************)
(* FocusFilter.transform.                                                  *)
(***************************************************************************)
\* A masker: its mask image and the affine of that image.
Masker(mask_arr) == [mask_img |-> mask_arr, affine |-> Affine]

\* masker = self.masker or dataset.masker
FilterMasker(self_, dataset) ==
    IF self_.masker # <<>> THEN self_.masker[1] ELSE dataset.masker

\* The mutant of MaskIjk: every voxel of the mask volume is taken.
MaskIjkWholeVolume(masker) == DOMAIN masker.mask_img

\* mask_ijk = np.vstack(np.where(masker.mask_img.get_fdata())).T: the indices
\* of the voxels of the mask image that are not 0.
MaskIjk(masker) == {v \in DOMAIN masker.mask_img : masker.mask_img[v] # 0}

\* dset_ijk = mm2vox(dset_xyz, masker.mask_img.affine)
DsetIjk(coordinates, masker) ==
    [i \in 1..Len(coordinates) |-> Mm2Vox(coordinates[i].x, masker.affine)]

\* keep_idx: the positions, counted from 0 and in increasing order, of the
\* rows whose voxel is a voxel of mask_ijk.
KeepIdx(dset_ijk, mask_ijk) ==
    SortedSeq({i - 1 : i \in {j \in 1..Len(dset_ijk) : dset_ijk[j] \in mask_ijk}})

\* The mutant of Iloc: the rows are taken by their label, not their position.
Loc(coordinates, keep_idx) ==
    LET Labelled(l) == {i \in 1..Len(coordinates) : coordinates[i].label = l}
        found == SelectSeq(keep_idx, LAMBDA l : Labelled(l) # {})
    IN  [k \in 1..Len(found) |-> coordinates[CHOOSE i \in Labelled(found[k]) : TRUE]]

\* dataset.coordinates.iloc[keep_idx]: the rows at the positions named, in
\* that order, each with its label and its values.
Iloc(coordinates, keep_idx) ==
    [k \in 1..Len(keep_idx) |-> coordinates[keep_idx[k] + 1]]

\* The mutant of WithCoordinates: the studies left without a row go as well.
WithCoordinatesOfStudies(dataset, coordinates) ==
    LET Has(id) == \E i \in 1..Len(coordinates) : coordinates[i].id = id
    IN  [dataset EXCEPT !.coordinates = coordinates,
                        !.ids = SelectSeq(dataset.ids, Has),
                        !.images = SelectSeq(dataset.images, LAMBDA r : Has(r.id)),
                        !.metadata = SelectSeq(dataset.metadata, LAMBDA r : Has(r.id))]

\* dataset.coordinates = ...: the one attribute of the Dataset assigned.
WithCoordinates(dataset, coordinates) == [dataset EXCEPT !.coordinates = coordinates]

\* The mutant of FilteredObject: the filter works on a copy of the Dataset.
FilteredObjectCopy(heap_, dataset) == Len(heap_) + 1

\* The Dataset object whose coordinates are assigned and which is returned:
\* the argument itself.
FilteredObject(heap_, dataset) == dataset

\* The text of the record logged, as the pieces it is put together from.
FilterMessage(removed, total) ==
    <<ToString(removed), "/", ToString(total),
      " coordinates fall outside of the mask. Removing them.">>

\* World coordinates of peaks: the voxel centres, a point off centre that
\* rounds up to voxel 1, and a centre on either side of the volume.
FilterXs == WorldXs \cup {-VoxSize, VoxSize * NVox}

\* The image table and the metadata of a Dataset: one row per study.
ImagesOf(ids) == [i \in 1..Len(ids) |-> [id |-> ids[i], z |-> ids[i] \o "_z.nii.gz"]]
MetadataOf(ids) == [i \in 1..Len(ids) |-> [id |-> ids[i], sample_sizes |-> i]]

\* The coordinate tables of a Dataset, sorted by study: the first rows belong
\* to the first study, the others to the last; the labels count from 0.
FilterTables ==
    {[i \in 1..n |-> [label |-> i - 1,
                      id |-> IF i <= first THEN StudyId(1) ELSE StudyId(MaxStudies),
                      x |-> xs[i]]] :
        <<n, first, xs>> \in {t \in (0..MaxRows) \X (0..MaxRows) \X [1..MaxRows -> FilterXs] :
                                 /\ t[2] <= t[1]
                                 /\ \A i \in 1..MaxRows : i > t[1] => t[3][i] = 0}}

\* The masks: any set of voxels of the volume.
MaskArrs == [Grid -> {0, 1}]
\* The masks of the Dataset itself: the whole volume, or its first voxel.
DatasetMaskArrs == {[v \in Grid |-> 1], [v \in Grid |-> IF v = 0 THEN 1 ELSE 0]}

\* The largest number of calls of transform on the Dataset.
MaxCalls == 2

FilterInit ==
    /\ PropIdle
    /\ FcIdle
    /\ TrIdle
    /\ WfIdle
    /\ ff_pc = "ready"
    /\ ff_self \in [masker : {<<>>} \cup {<<Masker(m)>> : m \in MaskArrs}]
    /\ \E coordinates \in FilterTables, m \in DatasetMaskArrs :
          ff_heap = <<[ids |-> AllIds,
                       coordinates |-> coordinates,
                       images |-> ImagesOf(AllIds),
                       metadata |-> MetadataOf(AllIds),
                       masker |-> Masker(m)]>>
    /\ ff_arg = 1
    /\ ff_rets = <<>>
    /\ ff_before = <<>>
    /\ ff_log = <<>>

\* One call of FocusFilter.transform(dataset), lines 448-474.
FilterTransform ==
    /\ ff_pc = "ready"
    /\ Len(ff_rets) < MaxCalls
    /\ LET dataset == ff_heap[ff_arg]
           masker == FilterMasker(ff_self, dataset)
           mask_ijk == MaskIjk(masker)
           dset_ijk == DsetIjk(dataset.coordinates, masker)
           keep_idx == KeepIdx(dset_ijk, mask_ijk)
           target == FilteredObject(ff_heap, ff_arg)
           filtered == WithCoordinates(dataset, Iloc(dataset.coordinates, keep_idx))
       IN  /\ ff_log' = Append(ff_log,
                               [level |-> "INFO",
                                msg |-> FilterMessage(Len(dset_ijk) - Len(keep_idx),
                                                      Len(dset_ijk))])
           /\ ff_heap' = IF target > Len(ff_heap) THEN Append(ff_heap, filtered)
                         ELSE [ff_heap EXCEPT ![target] = filtered]
           /\ ff_rets' = Append(ff_rets, target)
           /\ ff_before' = Append(ff_before, dataset)
           \* the caller hands the Dataset returned to the next call
           /\ ff_arg' = target
    /\ UNCHANGED <<ff_pc, ff_self, pvVars, fcVars, trVars, wfVars>>

FilterNext == FilterTransform

SpecFilter == FilterInit /\ [][FilterNext]_vars

\* The Dataset that call k of transform was handed, as it was at the call, and
\* the Dataset it returned, as it was at the return.
BeforeCall(k) == ff_before[k]
AfterCall(k) == IF k < Len(ff_rets) THEN ff_before[k + 1] ELSE ff_heap[ff_rets[k]]

\* The mask that applies to a Dataset: the filter's own, else the Dataset's.
AppliedMask(dataset) ==
    IF ff_self.masker # <<>> THEN ff_self.masker[1].mask_img ELSE dataset.masker.mask_img

\* The world coordinate of the row, converted and rounded, is the index of a
\* voxel of the mask that is not 0.
InsideMask(row, mask_arr) ==
    \E v \in Grid : mask_arr[v] # 0 /\ Mm2Vox(row.x, Affine) = v

RowsInside(dataset) ==
    SelectSeq(dataset.coordinates, LAMBDA row : InsideMask(row, AppliedMask(dataset)))

(***************************************************************************)
(* C11: FocusFilter.transform keeps exactly the coordinate rows whose      *)
(* world coordinates, converted with the mask's affine and rounded, are    *)
(* the index of a non-zero voxel of the mask, and removes every other row; *)
(* the rows kept keep their order and their values, and the record logged  *)
(* tells how many of how many rows were removed.                           *)
(***************************************************************************)
C11_KeepsRowsInsideMask ==
    \A k \in 1..Len(ff_rets) :
        LET before == BeforeCall(k).coordinates
            after == AfterCall(k).coordinates
        IN  /\ after = RowsInside(BeforeCall(k))
            /\ ff_log[k].level = "INFO"
            /\ ff_log[k].msg[1] = ToString(Len(before) - Len(after))
            /\ ff_log[k].msg[2] = "/"
            /\ ff_log[k].msg[3] = ToString(Len(before))

\* The mask covers voxel 0 only; of two rows, the one on voxel 0 was kept and
\* the one outside the volume removed: 1 of 2.
C11_Witness ==
    /\ Len(ff_rets) >= 1
    /\ MaskIjk(FilterMasker(ff_self, BeforeCall(1))) = {0}
    /\ Len(BeforeCall(1).coordinates) = 2
    /\ BeforeCall(1).coordinates[1].x = 0
    /\ BeforeCall(1).coordinates[2].x = VoxSize * NVox
    /\ AfterCall(1).coordinates = <<BeforeCall(1).coordinates[1]>>
    /\ ff_log[1].msg[1] = "1" /\ ff_log[1].msg[3] = "2"

(***************************************************************************)
(* C12: FocusFilter.transform removes or alters no study, image or         *)
(* metadata: the study ids, the image table and the metadata of the        *)
(* Dataset returned are those of the input, and a study whose coordinates  *)
(* were all removed is still a study of the Dataset.                       *)
(***************************************************************************)
C12_StudiesImagesMetadataKept ==
    \A k \in 1..Len(ff_rets) :
        /\ AfterCall(k).ids = BeforeCall(k).ids
        /\ AfterCall(k).images = BeforeCall(k).images
        /\ AfterCall(k).metadata = BeforeCall(k).metadata
        /\ \A i \in 1..Len(BeforeCall(k).coordinates) :
              \E j \in 1..Len(AfterCall(k).ids) :
                  AfterCall(k).ids[j] = BeforeCall(k).coordinates[i].id

\* A study had coordinates, the filter removed them all, and it is still there.
C12_Witness ==
    /\ Len(ff_rets) >= 1
    /\ \E i \in 1..Len(BeforeCall(1).coordinates) :
          LET id == BeforeCall(1).coordinates[i].id
          IN  /\ \A j \in 1..Len(AfterCall(1).coordinates) :
                    AfterCall(1).coordinates[j].id # id
              /\ \E j \in 1..Len(AfterCall(1).ids) : AfterCall(1).ids[j] = id
              /\ \E j \in 1..Len(AfterCall(1).images) : AfterCall(1).images[j].id = id

(***************************************************************************)
(* C13: FocusFilter is idempotent: a second application (with the same     *)
(* mask) to the Dataset returned leaves the coordinate rows of the first   *)
(* application as they are and removes 0 rows.                             *)
(***************************************************************************)
C13_FilterIsIdempotent ==
    \A k \in 2..Len(ff_rets) :
        /\ AfterCall(k).coordinates = AfterCall(k - 1).coordinates
        /\ ff_log[k].msg[1] = "0"
        /\ ff_log[k].msg[3] = ToString(Len(AfterCall(k - 1).coordinates))

\* The first application removed a row and kept a later one; the filter has
\* been applied again.
C13_Witness ==
    /\ Len(ff_rets) >= 2
    /\ Len(BeforeCall(1).coordinates) = 2
    /\ AfterCall(1).coordinates = <<BeforeCall(1).coordinates[2]>>
    /\ AfterCall(2).coordinates = AfterCall(1).coordinates

(***************************************************************************)
(* C17: FocusFilter.transform makes no independent Dataset: it overwrites  *)
(* the coordinate table of the Dataset object it was given and returns     *)
(* that object, so that the caller's Dataset has lost the rows outside the *)
(* mask.                                                                   *)
(***************************************************************************)
C17_FiltersTheCallersDataset ==
    Len(ff_rets) >= 1 =>
        /\ \A k \in 1..Len(ff_rets) : ff_rets[k] = 1
        /\ Len(ff_heap) = 1
        /\ \A i \in 1..Len(ff_heap[1].coordinates) :
              InsideMask(ff_heap[1].coordinates[i], AppliedMask(ff_heap[1]))
        /\ Len(ff_heap[1].coordinates) = Len(RowsInside(BeforeCall(1)))

\* The caller's Dataset had a row outside the mask and no longer has it.
C17_Witness ==
    /\ Len(ff_rets) = 1
    /\ ff_rets[1] = 1
    /\ Len(ff_heap[1].coordinates) < Len(BeforeCall(1).coordinates)

\* The value map of the re-fit without the study of a finished Jackknife task.
RefitValues(expid) ==
    GetMap(FitMaps(Slice(frame.dset, OtherIds(frame.meta_ids, expid))),
           frame.target_value_map)

\* The voxels of the j-th cluster of a label map.
ClusterVoxels(label_arr, j) ==
    {v \in Grid :
        label_arr[v] = SortedSeq({label_arr[u] : u \in Grid} \ {0})[j]}

(***************************************************************************)
(* C15: when the re-fit without a study leaves the value map as it was at  *)
(* every voxel of a cluster, the study's Jackknife contribution for that   *)
(* cluster is 0.                                                           *)
(***************************************************************************)
C15_UnchangedClusterContributesZero ==
    self.diag = "Jackknife" =>
        \A t \in 1..Len(task_log) :
            \A j \in 1..Len(task_log[t].out) :
                (\A v \in ClusterVoxels(frame.label_maps[task_log[t].k], j) :
                    RefitValues(task_log[t].expid)[v] = frame.stat_values[v])
                => task_log[t].out[j] = Fin(0, 1)

(***************************************************************************)
(* cbma_workflow (nimare/workflows/cbma.py).                               *)
(***************************************************************************)
\* The strings the workflow accepts for its arguments (lines 57-59).
EstmOptions == <<"ale", "scale", "mkdadensity", "kda">>
CorrOptions == <<"montecarlo", "fdr", "bonferroni">>
DiagOptions == <<"jackknife", "focuscounter">>

\* x in options
InOptions(x, options) == \E i \in 1..Len(options) : options[i] = x

\* The classes a class derives from, itself included.
Bases(cls) ==
    CASE cls = "ALE" -> {"ALE", "CBMAEstimator"}
      [] cls = "ALESubtraction" ->
            {"ALESubtraction", "PairwiseCBMAEstimator", "CBMAEstimator"}
      [] cls = "FWECorrector" -> {"FWECorrector", "Corrector"}
      [] cls = "Jackknife" -> {"Jackknife", "Diagnostics"}
      [] cls = "FocusCounter" -> {"FocusCounter", "Diagnostics"}
      [] OTHER -> {cls}

\* isinstance(obj, clss)
IsInstance(obj, clss) == obj.kind = "instance" /\ clss \in Bases(obj.name)

WfOk(value) == [error |-> NoError, value |-> value]
WfRaise(type, step, msg) ==
    [error |-> [type |-> type, step |-> step, msg |-> msg], value |-> NoArg]

\* nimare.utils._check_type(obj, clss) of a class: an instance of it, when
\* the class is a kind of clss.
CheckType(obj, clss, step) ==
    IF clss \in Bases(obj.name) THEN WfOk(Arg("instance", obj.name))
    ELSE WfRaise("ValueError", step, <<>>)

\* Lines 62-72: the estimator is None, a class or one of the strings.
ValidateEstimator(estimator) ==
    IF estimator.kind = "none" THEN WfOk(Arg("instance", "ALE"))
    ELSE IF estimator.kind = "class" THEN CheckType(estimator, "CBMAEstimator", "estimator")
    ELSE IF estimator.kind = "str"
    THEN IF ~InOptions(estimator.name, EstmOptions)
         THEN WfRaise("ValueError", "estimator",
                      <<"\"estimator\" of kind string must be ">> \o Join(EstmOptions, ", "))
         ELSE WfOk(estimator)
    ELSE WfRaise("ValueError", "estimator",
                 <<"\"estimator\" is ", estimator.name,
                   ", it must be a kind of CBMAEstimator, or a string.">>)

\* Lines 75-83: the corrector is a class or one of the strings.
ValidateCorrector(corrector) ==
    IF corrector.kind = "class" THEN CheckType(corrector, "Corrector", "corrector")
    ELSE IF corrector.kind = "str"
    THEN IF ~InOptions(corrector.name, CorrOptions)
         THEN WfRaise("ValueError", "corrector",
                      <<"\"corrector\" of kind string must be ">> \o Join(CorrOptions, ", "))
         ELSE WfOk(corrector)
    ELSE WfRaise("ValueError", "corrector",
                 <<"\"corrector\" is ", corrector.name,
                   ", it must be a kind of Corrector, or a string.">>)

\* Lines 86-94: the diagnostics are a class or one of the strings.
ValidateDiagnostics(diagnostics) ==
    IF diagnostics.kind = "class" THEN CheckType(diagnostics, "Diagnostics", "diagnostics")
    ELSE IF diagnostics.kind = "str"
    THEN IF ~InOptions(diagnostics.name, DiagOptions)
         THEN WfRaise("ValueError", "diagnostics",
                      <<"\"diagnostics\" of kind string must be ">> \o Join(DiagOptions, ", "))
         ELSE WfOk(diagnostics)
    ELSE WfRaise("ValueError", "diagnostics",
                 <<"\"diagnostics\" is ", diagnostics.name,
                   ", it must be a kind of Diagnostics, or a string.">>)

\* A third corrected map: not a z map.
LogpVoxelCorr == "logp_level-voxel_corr-FWE_method-montecarlo"

\* The name of a map, cut at the places the workflow looks at.
Tokens(name) ==
    CASE name = DefaultTarget ->
            <<"z_", "desc-size_level-cluster", "_corr-", "FWE_method-montecarlo">>
      [] name = VoxelCorr -> <<"z_", "level-voxel", "_corr-", "FWE_method-montecarlo">>
      [] name = LogpVoxelCorr ->
            <<"logp_", "level-voxel", "_corr-", "FWE_method-montecarlo">>
      [] OTHER -> <<name>>

\* img_key.startswith("z_") and ("_corr-" in img_key)
IsImgKey(name) ==
    /\ Tokens(name)[1] = "z_"
    /\ \E i \in 1..Len(Tokens(name)) : Tokens(name)[i] = "_corr-"

\* img_keys: the corrected z maps of the result, in the order of the dict.
ImgKeys(maps) ==
    LET names == [i \in 1..Len(maps) |-> maps[i].name]
    IN  SelectSeq(names, IsImgKey)

\* The corrected maps a Corrector adds to the result, for one thresholded map.
CorrOutcomes == {<<>>, <<LogpVoxelCorr, VoxelCorr>>, <<LogpVoxelCorr, VoxelCorr, DefaultTarget>>}
Corrected(maps, corr, target_arr) ==
    maps \o [i \in 1..Len(corr) |-> [name |-> corr[i], arr |-> target_arr]]

\* Whether Python can iterate over the diagnostics: a tuple, or a string (its
\* characters); a single instance is not iterable.
IsIterable(diagnostics) == diagnostics.kind \in {"tuple", "str"}
NumElements(diagnostics) ==
    IF diagnostics.kind = "tuple" THEN Len(diagnostics.items) ELSE Len(diagnostics.name)

\* itertools.product(img_keys, diagnostics): pair p, the keys first.
NumPairs(img_keys, diagnostics) == Len(img_keys) * NumElements(diagnostics)
PairKey(p, diagnostics) == ((p - 1) \div NumElements(diagnostics)) + 1
PairDiag(p, diagnostics) == ((p - 1) % NumElements(diagnostics)) + 1

\* pandas' DataFrame.empty: an axis of length 0; the column "id" counts.
DataFrameEmpty(table) == Len(table.rows) = 0 \/ Len(<<"id">> \o table.cols) = 0

\* dict[name] = value: a new key goes last, a known key keeps its place.
DictSet(dict, name, value) ==
    IF \E i \in 1..Len(dict) : dict[i].name = name
    THEN [i \in 1..Len(dict) |->
             IF dict[i].name = name THEN [name |-> name, value |-> value] ELSE dict[i]]
    ELSE Append(dict, [name |-> name, value |-> value])

HasKey(dict, name) == \E i \in 1..Len(dict) : dict[i].name = name

ClustTblName(img_key) == img_key \o "_clust"
CountTblName(img_key, diag_name) == img_key \o "_" \o diag_name

\* A diagnostic as its constructor makes it: Jackknife(), FocusCounter().
Diagnostic(diag) ==
    [diag |-> diag, target_image |-> DefaultTarget, voxel_thresh |-> <<>>, n_cores |-> 1]
DiagnosticsTuple(items) == [kind |-> "tuple", name |-> "tuple", items |-> items]

EstimatorArgs ==
    {NoArg, Arg("class", "ALE"), Arg("class", "ALESubtraction"), Arg("str", "ale"),
     Arg("str", "mkda"), Arg("instance", "ALE")}
CorrectorArgs ==
    {Arg("class", "FWECorrector"), Arg("str", "montecarlo"), Arg("str", "holm"),
     Arg("instance", "FWECorrector")}
DiagnosticsArgs ==
    {Arg("class", "Jackknife"), Arg("str", "jackknife"), Arg("str", "focusfilter"),
     DiagnosticsTuple(<<Diagnostic("Jackknife")>>),
     DiagnosticsTuple(<<Diagnostic("Jackknife"), Diagnostic("FocusCounter")>>)}

WfInfo(msg) == [level |-> "INFO", msg |-> msg]
WfWarn(msg) == [level |-> "WARNING", msg |-> msg]

\* A call of cbma_workflow(dataset, estimator, corrector, diagnostics).
FlowInit ==
    /\ PropIdle
    /\ FcIdle
    /\ FfIdle
    /\ TrIdle
    /\ wf_call \in [dataset : Datasets, estimator : EstimatorArgs,
                    corrector : CorrectorArgs, diagnostics : DiagnosticsArgs]
    /\ wf_pc = "estimator"
    /\ wf_frame = [NoWfFrame EXCEPT !.estimator = wf_call.estimator,
                                    !.corrector = wf_call.corrector,
                                    !.diagnostics = wf_call.diagnostics]
    /\ wf_error = NoError
    /\ wf_log = <<>>
    /\ wf_tables = <<>>
    /\ wf_hist = <<>>

\* Lines 53-72.
CheckEstimator ==
    /\ wf_pc = "estimator"
    /\ LET r == ValidateEstimator(wf_frame.estimator)
       IN  IF r.error # NoError
           THEN /\ wf_error' = r.error
                /\ wf_pc' = "raised"
                /\ UNCHANGED wf_frame
           ELSE /\ wf_frame' = [wf_frame EXCEPT !.estimator = r.value]
                /\ wf_pc' = "corrector"
                /\ UNCHANGED wf_error
    /\ UNCHANGED <<pvVars, fcVars, ffVars, trVars, wf_call, wf_log, wf_tables, wf_hist>>

\* Lines 74-83.
CheckCorrector ==
    /\ wf_pc = "corrector"
    /\ LET r == ValidateCorrector(wf_frame.corrector)
       IN  IF r.error # NoError
           THEN /\ wf_error' = r.error
                /\ wf_pc' = "raised"
                /\ UNCHANGED wf_frame
           ELSE /\ wf_frame' = [wf_frame EXCEPT !.corrector = r.value]
                /\ wf_pc' = "diagnostics"
                /\ UNCHANGED wf_error
    /\ UNCHANGED <<pvVars, fcVars, ffVars, trVars, wf_call, wf_log, wf_tables, wf_hist>>

\* Lines 85-94.
CheckDiagnostics ==
    /\ wf_pc = "diagnostics"
    /\ LET r == ValidateDiagnostics(wf_frame.diagnostics)
       IN  IF r.error # NoError
           THEN /\ wf_error' = r.error
                /\ wf_pc' = "raised"
                /\ UNCHANGED wf_frame
           ELSE /\ wf_frame' = [wf_frame EXCEPT !.diagnostics = r.value]
                /\ wf_pc' = "pairwise"
                /\ UNCHANGED wf_error
    /\ UNCHANGED <<pvVars, fcVars, ffVars, trVars, wf_call, wf_log, wf_tables, wf_hist>>

\* Lines 96-99.
CheckPairwise ==
    /\ wf_pc = "pairwise"
    /\ IF IsInstance(wf_frame.estimator, "PairwiseCBMAEstimator")
       THEN /\ wf_error' =
                 [type |-> "AttributeError", step |-> "pairwise",
                  msg |-> <<"The cbma_workflow function does not currently work with pairwise Estimators.">>]
            /\ wf_pc' = "raised"
       ELSE /\ wf_pc' = "fit"
            /\ UNCHANGED wf_error
    /\ UNCHANGED <<pvVars, fcVars, ffVars, trVars, wf_call, wf_frame, wf_log, wf_tables,
                   wf_hist>>

\* Lines 101-102: results = estimator.fit(dataset); a string has no fit.
FitEstimator ==
    /\ wf_pc = "fit"
    /\ wf_log' = Append(wf_log, WfInfo("Performing meta-analysis..."))
    /\ IF wf_frame.estimator.kind = "str"
       THEN /\ wf_error' = [type |-> "AttributeError", step |-> "fit", msg |-> <<>>]
            /\ wf_pc' = "raised"
            /\ UNCHANGED <<heap, res_maps>>
       ELSE /\ heap' = <<Fitted(wf_call.dataset)>>
            /\ res_maps' = FitMaps(wf_call.dataset)
            /\ wf_pc' = "correct"
            /\ UNCHANGED wf_error
    /\ UNCHANGED <<pvVars, fcVars, ffVars, self, pc, error, log, frame, tasks, done_order,
                   submitted, task_log, ret, wf_call, wf_frame, wf_tables, wf_hist>>

\* Lines 104-105: corr_results = corrector.transform(results); a string has
\* no transform.
Correct ==
    /\ wf_pc = "correct"
    /\ wf_log' = Append(wf_log, WfInfo("Performing correction on meta-analysis..."))
    /\ IF wf_frame.corrector.kind = "str"
       THEN /\ wf_error' = [type |-> "AttributeError", step |-> "correct", msg |-> <<>>]
            /\ wf_pc' = "raised"
            /\ UNCHANGED res_maps
       ELSE /\ \E corr \in CorrOutcomes, target_arr \in [Grid -> TargetVals] :
                  res_maps' = Corrected(res_maps, corr, target_arr)
            /\ wf_pc' = "keys"
            /\ UNCHANGED wf_error
    /\ UNCHANGED <<pvVars, fcVars, ffVars, self, heap, pc, error, log, frame, tasks,
                   done_order, submitted, task_log, ret, wf_call, wf_frame, wf_tables,
                   wf_hist>>

\* Lines 107-112.
CollectKeys ==
    /\ wf_pc = "keys"
    /\ wf_log' = Append(wf_log,
          WfInfo("Generating clusters tables and performing diagnostics on corrected meta-analyses..."))
    /\ wf_frame' = [wf_frame EXCEPT !.img_keys = ImgKeys(res_maps), !.i = 1]
    /\ wf_pc' = "loop"
    /\ UNCHANGED <<pvVars, fcVars, ffVars, trVars, wf_call, wf_error, wf_tables, wf_hist>>

\* Lines 113-115: the next pair of itertools.product(img_keys, diagnostics);
\* the diagnostic is given the key as its target and transform is called.
NextPair ==
    LET diagnostics == wf_frame.diagnostics
        j == PairDiag(wf_frame.i, diagnostics)
        img_key == wf_frame.img_keys[PairKey(wf_frame.i, diagnostics)]
        diagnostic == [diagnostics.items[j] EXCEPT !.target_image = img_key]
    IN  /\ wf_pc = "loop"
        /\ IF ~IsIterable(diagnostics)
           THEN \* product() of an object that is not iterable
                /\ wf_error' = [type |-> "TypeError", step |-> "loop", msg |-> <<>>]
                /\ wf_pc' = "raised"
                /\ UNCHANGED <<wf_frame, trVars>>
           ELSE IF wf_frame.i > NumPairs(wf_frame.img_keys, diagnostics)
           THEN /\ wf_pc' = "save"
                /\ UNCHANGED <<wf_frame, wf_error, trVars>>
           ELSE IF diagnostics.kind = "str"
           THEN \* a character of the string has no attribute target_image
                /\ wf_error' = [type |-> "AttributeError", step |-> "loop", msg |-> <<>>]
                /\ wf_pc' = "raised"
                /\ UNCHANGED <<wf_frame, trVars>>
           ELSE /\ wf_frame' = [wf_frame EXCEPT !.diagnostics.items[j] = diagnostic]
                /\ self' = diagnostic
                /\ heap' = <<heap[1]>>
                /\ pc' = "start"
                /\ error' = NoError
                /\ frame' = NoFrame
                /\ tasks' = <<>>
                /\ done_order' = <<>>
                /\ submitted' = <<>>
                /\ task_log' = <<>>
                /\ ret' = NoReturn
                /\ wf_pc' = "transform"
                /\ UNCHANGED <<res_maps, log, wf_error>>
        /\ UNCHANGED <<pvVars, fcVars, ffVars, wf_call, wf_log, wf_tables, wf_hist>>

\* Lines 115-127: the tables transform returned are stored under the key's
\* names unless the contribution table is empty.
StoreTables ==
    LET img_key == self.target_image
        diag_name == self.diag
        clust_tbl_name == ClustTblName(img_key)
        count_tbl_name == CountTblName(img_key, diag_name)
        stored == ~DataFrameEmpty(ret.contribution_table)
    IN  /\ wf_pc = "transform"
        /\ pc = "done"
        /\ IF stored
           THEN /\ wf_tables' = DictSet(DictSet(wf_tables, clust_tbl_name, ret.clusters_table),
                                        count_tbl_name, ret.contribution_table)
                /\ UNCHANGED wf_log
           ELSE /\ wf_log' = Append(wf_log,
                      WfWarn("Key " \o count_tbl_name \o " and " \o clust_tbl_name
                             \o " will not be stored in MetaResult.tables dictionary."))
                /\ UNCHANGED wf_tables
        /\ wf_hist' = Append(wf_hist,
                             [img_key |-> img_key, diag_name |-> diag_name,
                              contribution_table |-> ret.contribution_table,
                              clusters_table |-> ret.clusters_table,
                              stored |-> stored])
        /\ wf_frame' = [wf_frame EXCEPT !.i = @ + 1]
        /\ wf_pc' = "loop"
        /\ UNCHANGED <<pvVars, fcVars, ffVars, trVars, wf_call, wf_error>>

\* An exception of diagnostic.transform ends the workflow.
Propagate ==
    /\ wf_pc = "transform"
    /\ pc = "raised"
    /\ wf_error' = error
    /\ wf_pc' = "raised"
    /\ UNCHANGED <<pvVars, fcVars, ffVars, trVars, wf_call, wf_frame, wf_log, wf_tables,
                   wf_hist>>

\* Lines 129-142, with output_dir None: nothing is saved.
Return ==
    /\ wf_pc = "save"
    /\ wf_log' = Append(wf_log, WfInfo("Workflow completed."))
    /\ wf_pc' = "returned"
    /\ UNCHANGED <<pvVars, fcVars, ffVars, trVars, wf_call, wf_frame, wf_error, wf_tables,
                   wf_hist>>

\* cbma_workflow from its call. No argument that passes the checks of lines
\* 61-94 is a tuple of diagnostics, so that no call gets past line 114.
FlowNext ==
    \/ CheckEstimator
    \/ CheckCorrector
    \/ CheckDiagnostics
    \/ CheckPairwise
    \/ FitEstimator
    \/ Correct
    \/ CollectKeys
    \/ NextPair
    \/ Return

SpecFlow == FlowInit /\ [][FlowNext]_vars

(***************************************************************************)
(* The loop of cbma_workflow over the corrected maps and the diagnostics   *)
(* (lines 107-142), from its entry: the corrected result of a fit, and the *)
(* tuple of diagnostics the loop iterates over.                            *)
(***************************************************************************)
TablesInit ==
    /\ PropIdle
    /\ FcIdle
    /\ FfIdle
    /\ \E dset \in Datasets, corr \in CorrOutcomes, target_arr \in [Grid -> TargetVals],
          diagnostics \in {d \in DiagnosticsArgs : d.kind = "tuple"} :
          /\ wf_call = [dataset |-> dset, estimator |-> Arg("instance", "ALE"),
                        corrector |-> Arg("instance", "FWECorrector"),
                        diagnostics |-> diagnostics]
          /\ wf_frame = [NoWfFrame EXCEPT !.estimator = wf_call.estimator,
                                          !.corrector = wf_call.corrector,
                                          !.diagnostics = diagnostics]
          /\ heap = <<Fitted(dset)>>
          /\ res_maps = Corrected(FitMaps(dset), corr, target_arr)
    /\ wf_pc = "keys"
    /\ wf_error = NoError
    /\ wf_log = <<WfInfo("Performing meta-analysis..."),
                  WfInfo("Performing correction on meta-analysis...")>>
    /\ wf_tables = <<>>
    /\ wf_hist = <<>>
    /\ self = [diag |-> "", target_image |-> "", voxel_thresh |-> <<>>, n_cores |-> 1]
    /\ pc = "idle"
    /\ error = NoError
    /\ log = <<>>
    /\ frame = NoFrame
    /\ tasks = <<>>
    /\ done_order = <<>>
    /\ submitted = <<>>
    /\ task_log = <<>>
    /\ ret = NoReturn

TablesNext ==
    \/ CollectKeys
    \/ NextPair
    \/ CheckDataset
    \/ CollectTarget
    \/ GetClusters
    \/ BeginSign
    \/ Submit
    \/ \E i \in 1..MaxStudies : Finish(i)
    \/ Assemble
    \/ StoreTables
    \/ Propagate
    \/ Return

SpecTables == TablesInit /\ [][TablesNext]_vars

\* The call of the workflow's test: a Dataset, an ALE instance, a
\* FWECorrector instance and the tuple (Jackknife(),).
InstanceCall ==
    /\ wf_call.estimator = Arg("instance", "ALE")
    /\ wf_call.corrector = Arg("instance", "FWECorrector")
    /\ wf_call.diagnostics = DiagnosticsTuple(<<Diagnostic("Jackknife")>>)

(***************************************************************************)
(* C14: cbma_workflow called with a Dataset, an Estimator instance, a      *)
(* Corrector instance and a tuple of diagnostic instances passes the       *)
(* checks of its arguments, runs the fit, the correction and the           *)
(* diagnostics, and returns a result whose tables hold, for every          *)
(* corrected z map K and every diagnostic of kind D, the keys K_clust and  *)
(* K_D.                                                                    *)
(***************************************************************************)
C14_InstancesRunToTables ==
    InstanceCall =>
        /\ wf_pc # "raised"
        /\ wf_pc = "returned" =>
              \A k \in 1..Len(res_maps) :
                  IsImgKey(res_maps[k].name) =>
                      /\ HasKey(wf_tables, ClustTblName(res_maps[k].name))
                      /\ \A j \in 1..Len(wf_call.diagnostics.items) :
                            HasKey(wf_tables,
                                   CountTblName(res_maps[k].name,
                                                wf_call.diagnostics.items[j].diag))

\* The warning of the workflow for the tables of one key and diagnostic.
OmissionLogged(img_key, diag_name) ==
    \E i \in 1..Len(wf_log) :
        /\ wf_log[i].level = "WARNING"
        /\ wf_log[i].msg = "Key " \o CountTblName(img_key, diag_name) \o " and "
                           \o ClustTblName(img_key)
                           \o " will not be stored in MetaResult.tables dictionary."

====
